---------------------------- MODULE Spec2Model ----------------------------
(***************************************************************************)
(* Warehouse ("depo") product routes:                                      *)
(*   GET  /products      loader + ProductsPage   (app/routes/products.tsx) *)
(*   GET  /products/new  loader                  (new-product route)       *)
(*   POST /products/new  action                  (new-product route)       *)
(*                                                                         *)
(* A string is a sequence of one-character strings, so that parseInt and   *)
(* the ORDER BY comparison work on characters.  JavaScript null is the     *)
(* value Null, which is no string of the model's alphabet.                 *)
(*                                                                         *)
(* Every handler is cut at its awaits: the session lookup, the form read   *)
(* and the store call.  Handlers of different requests interleave at these *)
(* points; the store executes each statement atomically.                   *)
(***************************************************************************)
EXTENDS Integers, Sequences, FiniteSets

\* Number of request contexts that may be in flight at the same time.
MaxReq == 2

Req == 1..MaxReq

VARIABLES
    products,        \* table products: sequence of rows, in insertion order
    product_groups,  \* table product_groups: set of rows [id, name]
    req,             \* req[r]: the request handled in context r
    created          \* history: the records of the submissions answered with
                     \* the redirect to /products, in the order of the answers

vars == <<products, product_groups, req, created>>

---------------------------------------------------------------------------
(* Strings and JavaScript values *)

Null == <<"null">>

\* The characters used, in code-point order.
Chars == <<" ", "+", ",", "-", ".", "/", "0", "1", "2", "3", "4", "5", "6", "7", "8", "9",
           "A", "B", "N", "a", "b", "c", "g", "k", "m", "s">>

CharOrd(c) == CHOOSE i \in 1..Len(Chars) : Chars[i] = c

Digits == <<"0", "1", "2", "3", "4", "5", "6", "7", "8", "9">>

IsDigit(c) == \E i \in 1..Len(Digits) : Digits[i] = c

DigitVal(c) == (CHOOSE i \in 1..Len(Digits) : Digits[i] = c) - 1

\* StrWhiteSpaceChar, over the model's alphabet.
IsSpace(c) == c = " "

\* JavaScript !v for v : string | null.
Falsy(v) == v = Null \/ v = <<>>

\* A variant of OrNull that passes the empty string through (v ?? null).
OrNull_KeepsEmpty(v) == IF v = Null THEN Null ELSE v

\* JavaScript v || null.
OrNull(v) == IF Falsy(v) THEN Null ELSE v

\* JavaScript v ?? d.
Coalesce(v, d) == IF v = Null THEN d ELSE v

RECURSIVE TrimStart(_)
TrimStart(s) ==
    IF s # <<>> /\ IsSpace(Head(s)) THEN TrimStart(Tail(s)) ELSE s

RECURSIVE DigitPrefix(_)
DigitPrefix(s) ==
    IF s # <<>> /\ IsDigit(Head(s))
    THEN <<Head(s)>> \o DigitPrefix(Tail(s))
    ELSE <<>>

RECURSIVE DigitsValue(_)
DigitsValue(z) ==
    IF z = <<>> THEN 0
    ELSE 10 * DigitsValue(SubSeq(z, 1, Len(z) - 1)) + DigitVal(z[Len(z)])

\* A JavaScript number that is either NaN or an integer.
NaN == [nan |-> TRUE, val |-> 0]

Num(n) == [nan |-> FALSE, val |-> n]

isNaN(x) == x.nan

\* parseInt(s, 10): leading white space is skipped, a sign is read, then the
\* longest prefix of decimal digits; whatever follows the digits is ignored.
parseInt(s) ==
    LET S    == TrimStart(s)
        sign == IF S # <<>> /\ Head(S) = "-" THEN -1 ELSE 1
        S2   == IF S # <<>> /\ Head(S) \in {"+", "-"} THEN Tail(S) ELSE S
        Z    == DigitPrefix(S2)
    IN  IF Z = <<>> THEN NaN ELSE Num(sign * DigitsValue(Z))

\* s < t and s <= t in the order of ORDER BY ... ASC on text.
RECURSIVE StrLess(_, _)
StrLess(s, t) ==
    IF t = <<>> THEN FALSE
    ELSE IF s = <<>> THEN TRUE
    ELSE IF Head(s) = Head(t) THEN StrLess(Tail(s), Tail(t))
    ELSE CharOrd(Head(s)) < CharOrd(Head(t))

StrLeq(s, t) == s = t \/ StrLess(s, t)

---------------------------------------------------------------------------
(* The form of POST /products/new *)

S_A == <<"A">>
S_B == <<"B">>
S_b == <<"b">>
S_ab == <<"a", "b">>
S_kg == <<"k", "g">>
S_m == <<"m">>
S_s == <<"s">>

FormFields ==
    {"stock_code", "material_name_1", "material_name_2", "unit_of_measure",
     "serial_number", "group_id"}

\* A request that carries no form field (formData.get gives null for each).
NoForm == [k \in FormFields |-> Null]

\* Inputs of the sequential specification: every field absent, empty or
\* filled; group_id also non-numeric, digits followed by letters, and the id
\* of no group.
AllForms ==
    [stock_code      : {Null, <<>>, S_A, S_B},
     material_name_1 : {Null, <<>>, S_ab},
     material_name_2 : {Null, <<>>, S_m},
     unit_of_measure : {Null, <<>>, S_kg},
     serial_number   : {Null, <<>>, S_s},
     group_id        : {Null, <<>>, <<"1">>, <<"1", "2">>, <<"a", "b", "c">>,
                        <<"1", "a">>}]

\* A valid form with the optional fields absent.
Form(stock_code, material_name_1, group_id) ==
    [stock_code      |-> stock_code,
     material_name_1 |-> material_name_1,
     material_name_2 |-> Null,
     unit_of_measure |-> S_kg,
     serial_number   |-> Null,
     group_id        |-> group_id]

\* Inputs of the concurrent specification: two forms with the same stock
\* code, a third with another code, names that sort against the insertion
\* order and names that are equal, two groups, the id of no group, and a form
\* without a name.
ConcForms ==
    {Form(S_A, S_b, <<"1">>),
     Form(S_A, S_ab, <<"2">>),
     Form(S_B, S_ab, <<"2">>),
     Form(S_B, S_b, <<"7">>),
     Form(S_B, <<>>, <<"1">>)}

---------------------------------------------------------------------------
(* The store: tables products and product_groups behind the client *)

\* error of a store call that succeeded (JavaScript null).
ErrNull == "null"

\* code of a store error that is no constraint violation (the store cannot
\* be reached, the statement is refused).
ErrOther == "other"

GroupIds(groups) == {g.id : g \in groups}

\* Schema of table products: stock_code is unique.
UniqueViolation(rows, rec) ==
    \E i \in 1..Len(rows) : rows[i].stock_code = rec.stock_code

\* Schema of table products: group_id references product_groups(id).
ForeignKeyViolation(groups, rec) == rec.group_id \notin GroupIds(groups)

NewRow(rows, rec) ==
    [id              |-> Len(rows) + 1,
     stock_code      |-> rec.stock_code,
     material_name_1 |-> rec.material_name_1,
     material_name_2 |-> rec.material_name_2,
     unit_of_measure |-> rec.unit_of_measure,
     serial_number   |-> rec.serial_number,
     group_id        |-> rec.group_id,
     current_stock   |-> rec.current_stock]

\* supabase.from('products').insert([rec]): the possible results {error, rows},
\* rows being the table afterwards.  The unique index is checked when the row
\* is written, the foreign key at the end of the statement; a failed
\* statement writes nothing.
InsertProduct(rows, groups, rec) ==
    {[error |-> ErrOther, rows |-> rows],
     IF UniqueViolation(rows, rec)
     THEN [error |-> "23505", rows |-> rows]
     ELSE IF ForeignKeyViolation(groups, rec)
     THEN [error |-> "23503", rows |-> rows]
     ELSE [error |-> ErrNull, rows |-> Append(rows, NewRow(rows, rec))]}

Perms(n) ==
    {p \in [1..n -> 1..n] : \A i, j \in 1..n : i # j => p[i] # p[j]}

\* A variant of EmbeddedGroup that joins on the product's own id.
EmbeddedGroup_ById(p, groups) ==
    IF \E g \in groups : g.id = p.id
    THEN (CHOOSE g \in groups : g.id = p.id).name
    ELSE Null

\* The embedded product_groups ( name ) of a product: the name of its group,
\* or Null when it has none.
EmbeddedGroup(p, groups) ==
    IF \E g \in groups : g.id = p.group_id
    THEN (CHOOSE g \in groups : g.id = p.group_id).name
    ELSE Null

\* The columns selected by the list loader.
ProductWithGroup(p, groups) ==
    [id              |-> p.id,
     stock_code      |-> p.stock_code,
     material_name_1 |-> p.material_name_1,
     unit_of_measure |-> p.unit_of_measure,
     current_stock   |-> p.current_stock,
     serial_number   |-> p.serial_number,
     product_groups  |-> EmbeddedGroup(p, groups)]

\* A variant of SelectProducts without .order(...): the rows in any order.
SelectProducts_Unordered(rows, groups) ==
    {[error |-> ErrOther, data |-> <<>>]} \cup
    {[error |-> ErrNull,
      data  |-> [i \in 1..Len(rows) |-> ProductWithGroup(rows[p[i]], groups)]] :
        p \in Perms(Len(rows))}

\* supabase.from('products').select(...).order('material_name_1',
\* {ascending: true}): the possible results {error, data}.  Rows with equal
\* names come in any order.
SelectProducts(rows, groups) ==
    {[error |-> ErrOther, data |-> <<>>]} \cup
    {[error |-> ErrNull,
      data  |-> [i \in 1..Len(rows) |-> ProductWithGroup(rows[p[i]], groups)]] :
        p \in {q \in Perms(Len(rows)) :
                 \A i \in 1..(Len(rows) - 1) :
                    StrLeq(rows[q[i]].material_name_1,
                           rows[q[i + 1]].material_name_1)}}

\* supabase.from('product_groups').select('id, name').order('name',
\* {ascending: true}): the possible results {error, data}.
SelectGroups(groups) ==
    {[error |-> ErrOther, data |-> <<>>]} \cup
    {[error |-> ErrNull, data |-> s] :
        s \in {t \in [1..Cardinality(groups) -> groups] :
                 /\ \A i, j \in 1..Cardinality(groups) : i # j => t[i] # t[j]
                 /\ \A i \in 1..(Cardinality(groups) - 1) :
                       StrLeq(t[i].name, t[i + 1].name)}}

---------------------------------------------------------------------------
(* Responses *)

NoFieldErrors == [k \in {} |-> ""]

\* No response yet.
NoResp ==
    [status |-> 0, location |-> "", thrown |-> FALSE, error |-> <<>>,
     fieldErrors |-> NoFieldErrors, data |-> <<>>, page |-> <<>>]

\* redirect(location): status 302.
Redirect(location, thrown) ==
    [NoResp EXCEPT !.status = 302, !.location = location, !.thrown = thrown]

\* json<ActionData>({ fieldErrors }, { status: 400 })
JsonFieldErrors(fieldErrors) ==
    [NoResp EXCEPT !.status = 400, !.fieldErrors = fieldErrors]

\* json<ActionData>({ error }, { status }); error is the message, cut where
\* a value is interpolated.
JsonError(status, error) ==
    [NoResp EXCEPT !.status = status, !.error = error]

\* throw new Response(message, { status: 500 })
ThrownResponse(message) ==
    [NoResp EXCEPT !.status = 500, !.thrown = TRUE, !.error = <<message>>]

\* An exception that leaves the handler: it builds no response, the framework
\* answers 500.
Uncaught(exception) ==
    [NoResp EXCEPT !.status = 500, !.thrown = TRUE, !.error = <<exception>>]

\* json({ products | productGroups }), status 200, and the rows rendered
\* from it.
JsonData(data, page) ==
    [NoResp EXCEPT !.status = 200, !.data = data, !.page = page]

---------------------------------------------------------------------------
(* ProductsPage: the table body rendered from the loader's products *)

RECURSIVE NatToStr(_)
NatToStr(n) ==
    IF n < 10 THEN <<Digits[n + 1]>>
    ELSE NatToStr(n \div 10) \o <<Digits[(n % 10) + 1]>>

\* The digits d in groups of three from the right, "." between the groups.
RECURSIVE GroupThousands(_)
GroupThousands(d) ==
    IF Len(d) <= 3 THEN d
    ELSE GroupThousands(SubSeq(d, 1, Len(d) - 3)) \o <<".">>
            \o SubSeq(d, Len(d) - 2, Len(d))

\* n.toLocaleString('tr-TR', {minimumFractionDigits: 3,
\* maximumFractionDigits: 3}) for an integer n: the sign, the digits grouped
\* by "." and the three fraction digits after ",".  A stock with a fraction is
\* not represented: every row created here has current_stock 0.
FormatStock(n) ==
    (IF n < 0 THEN <<"-">> ELSE <<>>)
        \o GroupThousands(NatToStr(IF n < 0 THEN -n ELSE n))
        \o <<",", "0", "0", "0">>

NotAvailable == <<"N", "/", "A">>

Dash == <<"-">>

PlaceholderRow ==
    [placeholder |-> TRUE, stock_code |-> <<>>, material_name_1 |-> <<>>,
     group |-> <<>>, unit_of_measure |-> <<>>, current_stock |-> <<>>,
     serial_number |-> <<>>]

ProductRow(product) ==
    [placeholder     |-> FALSE,
     stock_code      |-> product.stock_code,
     material_name_1 |-> product.material_name_1,
     group           |-> Coalesce(product.product_groups, NotAvailable),
     unit_of_measure |-> product.unit_of_measure,
     current_stock   |-> FormatStock(product.current_stock),
     serial_number   |-> Coalesce(product.serial_number, Dash)]

ProductsPage(data) ==
    IF Len(data) = 0
    THEN <<PlaceholderRow>>
    ELSE [i \in 1..Len(data) |-> ProductRow(data[i])]

---------------------------------------------------------------------------
(* Validation and the record of the submit action *)

\* The messages are written in ASCII: the Turkish letters of the source are
\* replaced by their base letters.
RequiredFields == {"stock_code", "material_name_1", "unit_of_measure", "group_id"}

RequiredMsg ==
    [stock_code      |-> "Stok Kodu zorunludur.",
     material_name_1 |-> "Malzeme Adi zorunludur.",
     unit_of_measure |-> "Birim zorunludur.",
     group_id        |-> "Urun Grubu secilmelidir."]

InvalidGroupMsg == "Gecersiz Urun Grubu."

\* A variant of RequiredErrors that does not check unit_of_measure.
RequiredErrors_UnitUnchecked(form) ==
    [k \in {f \in RequiredFields \ {"unit_of_measure"} : Falsy(form[f])}
        |-> RequiredMsg[k]]

\* fieldErrors after the four required-field checks.
RequiredErrors(form) ==
    [k \in {f \in RequiredFields : Falsy(form[f])} |-> RequiredMsg[k]]

\* fieldErrors of the response to a group_id that does not parse.
InvalidGroupErrors == [k \in {"group_id"} |-> InvalidGroupMsg]

NoRecord == <<>>

\* The record handed to insert.
ProductRecord(form, group_id) ==
    [stock_code      |-> form.stock_code,
     material_name_1 |-> form.material_name_1,
     material_name_2 |-> OrNull(form.material_name_2),
     unit_of_measure |-> form.unit_of_measure,
     serial_number   |-> OrNull(form.serial_number),
     group_id        |-> group_id,
     current_stock   |-> 0]

\* A variant of InsertResponse that answers every store error with 500.
InsertResponse_NoConflict(error, stock_code) ==
    IF error # ErrNull
    THEN JsonError(500, <<"Urun eklenirken bir veritabani hatasi olustu.">>)
    ELSE Redirect("/products", FALSE)

\* A variant of InsertResponse that redirects whatever the store answered.
InsertResponse_ErrorIgnored(error, stock_code) == Redirect("/products", FALSE)

\* The response of the submit action to the result of the insert.
InsertResponse(error, stock_code) ==
    IF error # ErrNull
    THEN IF error = "23505"
         THEN JsonError(409, <<"Bu Stok Kodu (", stock_code, ") zaten mevcut.">>)
         ELSE JsonError(500, <<"Urun eklenirken bir veritabani hatasi olustu.">>)
    ELSE Redirect("/products", FALSE)

---------------------------------------------------------------------------
(* Requests *)

\* The body of a request, as await request.formData() finds it:
\*   BodyForm       the type is multipart/form-data or
\*                  application/x-www-form-urlencoded and the body parses;
\*                  form holds its fields (none, for an empty urlencoded body)
\*   BodyMalformed  the type is multipart/form-data and the body does not
\*                  parse (no boundary parameter, empty body, no multipart)
\*   BodyOther      the type is no form type, or there is none (no body,
\*                  JSON, text)
BodyForm == "form"

BodyMalformed == "malformed"

BodyOther == "other"

Bodies == {BodyForm, BodyMalformed, BodyOther}

\* A request context with no request in it.  kind, session, body and form are
\* the request.  pc is the await the handler stands at; ops are the store calls
\* made, error the error of the last one, record the record built for insert,
\* resp the response.
IdleReq ==
    [kind |-> "none", session |-> FALSE, body |-> BodyOther, form |-> NoForm,
     pc |-> "idle",
     resp |-> NoResp, ops |-> <<>>, error |-> "", record |-> NoRecord]

AllIdle == \A r \in Req : req[r].pc = "idle"

Arrive(r, kind, session, body, form) ==
    /\ req[r].pc = "idle"
    /\ req' = [req EXCEPT ![r] = [IdleReq EXCEPT !.kind = kind,
                                                 !.session = session,
                                                 !.body = body,
                                                 !.form = form,
                                                 !.pc = "session"]]
    /\ UNCHANGED <<products, product_groups, created>>

\* GET /products arrives, with or without a session cookie.
ReceiveList(r) == \E s \in BOOLEAN : Arrive(r, "list", s, BodyOther, NoForm)

\* GET /products/new arrives.
ReceiveForm(r) == \E s \in BOOLEAN : Arrive(r, "form", s, BodyOther, NoForm)

\* POST /products/new arrives with one of forms, or with a body that
\* request.formData() cannot read.
ReceiveSubmit(r, forms) ==
    \E s \in BOOLEAN :
        \/ \E f \in forms : Arrive(r, "submit", s, BodyForm, f)
        \/ \E b \in Bodies \ {BodyForm} : Arrive(r, "submit", s, b, NoForm)

Done(r, resp) == [req EXCEPT ![r].pc = "done", ![r].resp = resp]

\* A variant of LoaderSession that lets a request without a session through.
LoaderSession_Unguarded(r, kind) ==
    /\ req[r].kind = kind
    /\ req[r].pc = "session"
    /\ req' = [req EXCEPT ![r].pc = "query"]
    /\ UNCHANGED <<products, product_groups, created>>

\* Both loaders: await supabase.auth.getSession(); without a session the
\* loader returns the redirect to /login.
LoaderSession(r, kind) ==
    /\ req[r].kind = kind
    /\ req[r].pc = "session"
    /\ req' = IF ~req[r].session
              THEN Done(r, Redirect("/login", FALSE))
              ELSE [req EXCEPT ![r].pc = "query"]
    /\ UNCHANGED <<products, product_groups, created>>

ListLoaderSession(r) == LoaderSession(r, "list")

\* The list loader: the select on products, then the 500 response or the
\* products, which ProductsPage renders.
ListLoaderQuery(r) ==
    /\ req[r].kind = "list"
    /\ req[r].pc = "query"
    /\ \E res \in SelectProducts(products, product_groups) :
          req' = [req EXCEPT
                    ![r].pc = "done",
                    ![r].ops = Append(@, "select products"),
                    ![r].error = res.error,
                    ![r].resp =
                        IF res.error # ErrNull
                        THEN ThrownResponse("Urunler yuklenirken bir hata olustu.")
                        ELSE JsonData(res.data, ProductsPage(res.data))]
    /\ UNCHANGED <<products, product_groups, created>>

FormLoaderSession(r) == LoaderSession(r, "form")

\* The form loader: the select on product_groups, then the 500 response or
\* the groups.
FormLoaderQuery(r) ==
    /\ req[r].kind = "form"
    /\ req[r].pc = "query"
    /\ \E res \in SelectGroups(product_groups) :
          req' = [req EXCEPT
                    ![r].pc = "done",
                    ![r].ops = Append(@, "select product_groups"),
                    ![r].error = res.error,
                    ![r].resp =
                        IF res.error # ErrNull
                        THEN ThrownResponse("Urun gruplari yuklenirken bir hata olustu.")
                        ELSE JsonData(res.data, <<>>)]
    /\ UNCHANGED <<products, product_groups, created>>

\* The submit action: await supabase.auth.getSession(); without a session
\* the action throws the redirect to /login.
ActionSession(r) ==
    /\ req[r].kind = "submit"
    /\ req[r].pc = "session"
    /\ req' = IF ~req[r].session
              THEN Done(r, Redirect("/login", TRUE))
              ELSE [req EXCEPT ![r].pc = "validate"]
    /\ UNCHANGED <<products, product_groups, created>>

\* A variant of Validated in which the group_id check is one more entry of
\* fieldErrors, answered together with the required-field errors.
Validated_Accumulating(form) ==
    LET fieldErrors == RequiredErrors(form)
        group_id    == parseInt(form.group_id)
        all         == IF ~Falsy(form.group_id) /\ isNaN(group_id)
                       THEN [k \in DOMAIN fieldErrors \cup {"group_id"} |->
                               IF k = "group_id" THEN InvalidGroupMsg
                               ELSE fieldErrors[k]]
                       ELSE fieldErrors
    IN  IF DOMAIN all # {}
        THEN [ok |-> FALSE, resp |-> JsonFieldErrors(all), record |-> NoRecord]
        ELSE [ok |-> TRUE, resp |-> NoResp,
              record |-> ProductRecord(form, group_id.val)]

\* The submit action from the form read to the insert: the required-field
\* checks and their 400 response, then parseInt and its 400 response, then
\* the record.
Validated(form) ==
    LET fieldErrors == RequiredErrors(form)
        group_id    == parseInt(form.group_id)
    IN  IF DOMAIN fieldErrors # {}
        THEN [ok |-> FALSE, resp |-> JsonFieldErrors(fieldErrors),
              record |-> NoRecord]
        ELSE IF isNaN(group_id)
        THEN [ok |-> FALSE, resp |-> JsonFieldErrors(InvalidGroupErrors),
              record |-> NoRecord]
        ELSE [ok |-> TRUE, resp |-> NoResp,
              record |-> ProductRecord(form, group_id.val)]

\* await request.formData() rejects with a TypeError when the body is no
\* form that parses.
FormDataRejects(q) == q.body # BodyForm

\* The message of that TypeError.
FormDataError(body) ==
    IF body = BodyMalformed
    THEN "TypeError: Failed to parse body as FormData."
    ELSE "TypeError: Content-Type was not one of \"multipart/form-data\" or \"application/x-www-form-urlencoded\"."

\* The submit action from the form read to its validation responses.
ActionValidate(r) ==
    /\ req[r].kind = "submit"
    /\ req[r].pc = "validate"
    /\ LET v == Validated(req[r].form)
       IN  req' = IF FormDataRejects(req[r])
                  THEN Done(r, Uncaught(FormDataError(req[r].body)))
                  ELSE IF v.ok
                  THEN [req EXCEPT ![r].pc = "insert", ![r].record = v.record]
                  ELSE Done(r, v.resp)
    /\ UNCHANGED <<products, product_groups, created>>

\* A variant of ActionInsert that tries the insert once more after an error
\* that is no unique violation.
ActionInsert_Retrying(r) ==
    /\ req[r].kind = "submit"
    /\ req[r].pc = "insert"
    /\ \E res \in InsertProduct(products, product_groups, req[r].record) :
          LET resp == InsertResponse(res.error, req[r].record.stock_code)
              retry == res.error \notin {ErrNull, "23505"} /\ Len(req[r].ops) < 2
          IN  /\ products' = res.rows
              /\ req' = [req EXCEPT
                           ![r].pc = IF retry THEN "insert" ELSE "done",
                           ![r].ops = Append(@, "insert products"),
                           ![r].error = res.error,
                           ![r].resp = IF retry THEN NoResp ELSE resp]
              /\ created' = IF ~retry /\ resp.status = 302
                            THEN Append(created, req[r].record)
                            ELSE created
    /\ UNCHANGED product_groups

\* The submit action: the insert, then the response to its result.
ActionInsert(r) ==
    /\ req[r].kind = "submit"
    /\ req[r].pc = "insert"
    /\ \E res \in InsertProduct(products, product_groups, req[r].record) :
          LET resp == InsertResponse(res.error, req[r].record.stock_code)
          IN  /\ products' = res.rows
              /\ req' = [req EXCEPT
                           ![r].pc = "done",
                           ![r].ops = Append(@, "insert products"),
                           ![r].error = res.error,
                           ![r].resp = resp]
              /\ created' = IF resp.status = 302
                            THEN Append(created, req[r].record)
                            ELSE created
    /\ UNCHANGED product_groups

\* The response is sent and the request context is dropped: nothing of a
\* request is kept for the next one.
Respond(r) ==
    /\ req[r].pc = "done"
    /\ req' = [req EXCEPT ![r] = IdleReq]
    /\ UNCHANGED <<products, product_groups, created>>

---------------------------------------------------------------------------
(* Specifications *)

G_m == [id |-> 1, name |-> S_m]
G_kg == [id |-> 2, name |-> S_kg]

Init ==
    /\ products = <<>>
    /\ product_groups = {G_m, G_kg}
    /\ req = [r \in Req |-> IdleReq]
    /\ created = <<>>

\* Requests in any interleaving.
Next ==
    \E r \in Req :
        \/ ReceiveList(r)
        \/ ReceiveForm(r)
        \/ ReceiveSubmit(r, ConcForms)
        \/ ListLoaderSession(r)
        \/ ListLoaderQuery(r)
        \/ FormLoaderSession(r)
        \/ FormLoaderQuery(r)
        \/ ActionSession(r)
        \/ ActionValidate(r)
        \/ ActionInsert(r)
        \/ Respond(r)

Spec == Init /\ [][Next]_vars

\* One request at a time, the submissions with every shape of form.
NextSeq ==
    \E r \in Req :
        \/ AllIdle /\ ReceiveList(r)
        \/ AllIdle /\ ReceiveForm(r)
        \/ AllIdle /\ ReceiveSubmit(r, AllForms)
        \/ ListLoaderSession(r)
        \/ ListLoaderQuery(r)
        \/ FormLoaderSession(r)
        \/ FormLoaderQuery(r)
        \/ ActionSession(r)
        \/ ActionValidate(r)
        \/ ActionInsert(r)
        \/ Respond(r)

SpecSeq == Init /\ [][NextSeq]_vars

---------------------------------------------------------------------------
(* Properties *)

Submits == {r \in Req : req[r].kind = "submit"}

\* The required fields of a form that are empty or absent.
Missing(form) == {k \in RequiredFields : form[k] = Null \/ form[k] = <<>>}

\* s is a decimal integer numeral: an optional sign, then digits only.
IsNumeral(s) ==
    LET d == IF s # <<>> /\ s[1] \in {"+", "-"} THEN Tail(s) ELSE s
    IN  d # <<>> /\ \A i \in 1..Len(d) : IsDigit(d[i])

\* s holds no digit at all.
PurelyNonNumeric(s) == s # <<>> /\ \A i \in 1..Len(s) : ~IsDigit(s[i])

\* After white space and at most one sign, s goes on with a digit.
HasLeadingInteger(s) ==
    \E i \in 1..Len(s) :
        /\ IsDigit(s[i])
        /\ \A j \in 1..(i - 1) :
              IsSpace(s[j]) \/ (j = i - 1 /\ s[j] \in {"+", "-"})

ToLogin(resp) == resp.status = 302 /\ resp.location = "/login"

ToProducts(resp) == resp.status = 302 /\ resp.location = "/products"

\* The answer of a submission whose body request.formData() could not read:
\* the exception has left the action, no response of the action and no store
\* call.
BodyUnread(q) ==
    /\ q.pc = "done"
    /\ q.resp.status = 500 /\ q.resp.thrown
    /\ q.resp.error = <<FormDataError(q.body)>>
    /\ q.resp.fieldErrors = NoFieldErrors
    /\ q.ops = <<>> /\ q.error = ""

\* The request has got past validation: its record is built.
HasRecord(q) == q.pc = "insert" \/ (q.pc = "done" /\ q.ops # <<>>)

\* C1: a request without a session, of any of the three handlers and with
\* any form, makes no store call and ends in the redirect to /login.
C1_NoSessionNoAccess ==
    \A r \in Req :
        (req[r].kind # "none" /\ ~req[r].session) =>
            /\ req[r].ops = <<>>
            /\ req[r].pc \in {"session", "done"}
            /\ req[r].pc = "done" => ToLogin(req[r].resp)

C1_Witness ==
    \E r \in Req :
        /\ req[r].kind = "submit" /\ ~req[r].session /\ req[r].pc = "done"
        /\ Missing(req[r].form) = {} /\ req[r].form.group_id = <<"1">>
        /\ ToLogin(req[r].resp)
        /\ Len(products) = 2

\* C3, as claimed: every authenticated submission with required fields empty
\* or absent, a body that holds no readable form among them, is answered with 400 and
\* an entry for exactly the missing fields, without a store call.
C3_Original ==
    \A r \in Submits :
        (/\ req[r].session
         /\ Missing(req[r].form) # {}
         /\ req[r].pc \notin {"session", "validate"}) =>
            /\ req[r].pc = "done"
            /\ req[r].resp.status = 400
            /\ DOMAIN req[r].resp.fieldErrors = Missing(req[r].form)
            /\ req[r].ops = <<>>

C3_MissingInv ==
    \A r \in Submits :
        (/\ req[r].session
         /\ req[r].pc \notin {"session", "validate"}) =>
            IF req[r].body = BodyForm
            THEN Missing(req[r].form) # {} =>
                    /\ req[r].pc = "done"
                    /\ req[r].resp.status = 400
                    /\ DOMAIN req[r].resp.fieldErrors = Missing(req[r].form)
                    /\ req[r].ops = <<>>
            ELSE BodyUnread(req[r])

C3_MissingStep ==
    \A r \in Req :
        (/\ req'[r] # req[r]
         /\ req'[r].kind = "submit"
         /\ Missing(req'[r].form) # {}) => products' = products

\* C3, amended: an authenticated submission whose body is a form that parses
\* and that
\* has required fields empty or absent is answered with 400, fieldErrors has
\* an entry for exactly the missing fields, no store call is made and no step
\* of it changes products.  An authenticated submission whose body
\* request.formData() cannot read (no form type, or a form type and a body
\* that does not parse) is answered with the framework's 500, without fieldErrors and without
\* a store call.
C3_MissingFields == [](C3_MissingInv) /\ [][C3_MissingStep]_vars

C3_Witness ==
    \E r \in Submits :
        /\ req[r].session /\ req[r].pc = "done" /\ req[r].body = BodyForm
        /\ Missing(req[r].form) = {"unit_of_measure", "group_id"}
        /\ req[r].form.unit_of_measure = <<>> /\ req[r].form.group_id = Null
        /\ req[r].resp.status = 400
        /\ Len(products) = 1

\* C4, as claimed: a submission that both omits a required field and
\* carries a non-numeric group_id gets one 400 response with the
\* required-field errors and the group_id "invalid" error together.
C4_Original ==
    \A r \in Submits :
        (/\ req[r].session
         /\ req[r].pc = "done"
         /\ Missing(req[r].form) # {}
         /\ "group_id" \notin Missing(req[r].form)
         /\ PurelyNonNumeric(req[r].form.group_id)) =>
            /\ req[r].resp.status = 400
            /\ Missing(req[r].form) \subseteq DOMAIN req[r].resp.fieldErrors
            /\ "group_id" \in DOMAIN req[r].resp.fieldErrors
            /\ req[r].resp.fieldErrors["group_id"] = InvalidGroupMsg

\* C4, amended: validation of a form answers in two stages.  With a required
\* field missing, the 400 response holds the "required" error of every missing
\* field and nothing else, whatever group_id is.  With the four fields
\* present and a group_id with no leading integer, the 400 response holds
\* the group_id "invalid" error alone.  No other submission gets a 400.
C4_TwoStages ==
    \A r \in Submits :
        (/\ req[r].session /\ req[r].body = BodyForm
         /\ req[r].pc \notin {"session", "validate"}) =>
            LET form == req[r].form
                resp == req[r].resp
            IN  /\ Missing(form) # {} =>
                      /\ req[r].pc = "done" /\ resp.status = 400
                      /\ resp.fieldErrors = [k \in Missing(form) |-> RequiredMsg[k]]
                /\ (Missing(form) = {} /\ ~HasLeadingInteger(form.group_id)) =>
                      /\ req[r].pc = "done" /\ resp.status = 400
                      /\ resp.fieldErrors = [k \in {"group_id"} |-> InvalidGroupMsg]
                /\ (Missing(form) = {} /\ HasLeadingInteger(form.group_id)) =>
                      resp.status # 400

C4_Witness ==
    \E r \in Submits :
        /\ req[r].session /\ req[r].pc = "done" /\ req[r].body = BodyForm
        /\ req[r].form.stock_code = <<>>
        /\ req[r].form.group_id = <<"a", "b", "c">>
        /\ req[r].resp.status = 400
        /\ DOMAIN req[r].resp.fieldErrors = {"stock_code"}

\* C5, as claimed, for the submissions whose other required fields are
\* present: a group_id that is present and is no decimal integer numeral is
\* answered with 400 and the group_id "invalid" error, which differs from the
\* "required" one, and no insert is attempted; the group_id of every record
\* is the integer the whole field denotes.
C5_Claim ==
    \A r \in Submits :
        (/\ req[r].session
         /\ req[r].pc \notin {"session", "validate"}
         /\ Missing(req[r].form) = {}
         /\ ~IsNumeral(req[r].form.group_id)) =>
            /\ req[r].pc = "done"
            /\ req[r].resp.status = 400
            /\ DOMAIN req[r].resp.fieldErrors = {"group_id"}
            /\ req[r].resp.fieldErrors["group_id"] = InvalidGroupMsg
            /\ InvalidGroupMsg # RequiredMsg["group_id"]
            /\ req[r].ops = <<>>

\* C6: the record of a submission that passed validation has current_stock
\* 0, null for an optional field that was absent or empty, and the submitted
\* values otherwise; it is handed to insert at most once, and the row of a
\* successful submission holds it.
C6_Record ==
    \A r \in Submits :
        HasRecord(req[r]) =>
            LET form == req[r].form
                rec  == req[r].record
            IN  /\ rec.current_stock = 0
                /\ rec.stock_code = form.stock_code
                /\ rec.material_name_1 = form.material_name_1
                /\ rec.unit_of_measure = form.unit_of_measure
                /\ rec.material_name_2 =
                      IF form.material_name_2 \in {Null, <<>>} THEN Null
                      ELSE form.material_name_2
                /\ rec.serial_number =
                      IF form.serial_number \in {Null, <<>>} THEN Null
                      ELSE form.serial_number
                /\ rec.material_name_2 # <<>> /\ rec.serial_number # <<>>
                /\ Len(req[r].ops) <= 1
                /\ (req[r].pc = "done" /\ ToProducts(req[r].resp)) =>
                      LET row == products[Len(products)]
                      IN  /\ row.stock_code = rec.stock_code
                          /\ row.material_name_1 = rec.material_name_1
                          /\ row.material_name_2 = rec.material_name_2
                          /\ row.unit_of_measure = rec.unit_of_measure
                          /\ row.serial_number = rec.serial_number
                          /\ row.current_stock = 0

C6_Witness ==
    \E r \in Submits :
        /\ req[r].pc = "done" /\ ToProducts(req[r].resp)
        /\ req[r].form.material_name_2 = <<>>
        /\ req[r].form.serial_number = Null
        /\ products[Len(products)].material_name_2 = Null
        /\ products[Len(products)].serial_number = Null

---------------------------------------------------------------------------
(* The create flow, the list and the frame *)

\* The state of the create flow a request stands in.
FlowState(q) ==
    CASE q.pc \in {"idle", "session"}              -> "Idle"
      [] q.pc = "validate"                         -> "Validating"
      [] q.pc = "insert"                           -> "Inserting"
      [] q.pc = "done" /\ q.resp.status = 400      -> "Rejected"
      [] q.pc = "done" /\ q.resp.status = 409      -> "Conflict"
      [] q.pc = "done" /\ q.resp.status = 500      -> "StoreError"
      [] q.pc = "done" /\ ToProducts(q.resp)       -> "Success"
      [] OTHER                                     -> "Other"

FlowEdges ==
    {<<"Idle", "Validating">>,
     <<"Validating", "Rejected">>, <<"Validating", "Inserting">>,
     <<"Inserting", "Conflict">>, <<"Inserting", "StoreError">>,
     <<"Inserting", "Success">>,
     <<"Rejected", "Idle">>, <<"Conflict", "Idle">>,
     <<"StoreError", "Idle">>, <<"Success", "Idle">>}

\* The request in context r before and after a step is the same
\* authenticated submission, or that submission arriving or being answered.
SubmitStep(r) ==
    /\ req'[r] # req[r]
    /\ \/ req[r].kind = "submit" /\ req[r].session
       \/ req'[r].kind = "submit" /\ req'[r].session

\* The create flow of a submission whose body request.formData() cannot read.
BodyFlowState(q) ==
    CASE q.pc \in {"idle", "session"} -> "Idle"
      [] q.pc = "validate"            -> "Validating"
      [] BodyUnread(q)                -> "Thrown"
      [] OTHER                        -> "Other"

BodyFlowEdges ==
    {<<"Idle", "Validating">>, <<"Validating", "Thrown">>, <<"Thrown", "Idle">>}

\* The submission a step of context r belongs to.
SubmitOf(r) == IF req[r].kind = "submit" THEN req[r] ELSE req'[r]

FlowInvOf(q) ==
    /\ FlowState(q) # "Other"
    /\ Len(q.ops) <= 1
    /\ FlowState(q) \in {"Idle", "Validating", "Inserting", "Rejected"}
          => q.ops = <<>>
    /\ q.pc = "done" =>
          /\ q.resp.status = 400 <=> q.ops = <<>>
          /\ q.resp.status = 409 <=> q.error = "23505"
          /\ q.resp.status = 500 <=>
                (q.ops # <<>> /\ q.error \notin {ErrNull, "23505"})
          /\ ToProducts(q.resp) <=> q.error = ErrNull

FlowStepOf(r) ==
    \/ <<FlowState(req[r]), FlowState(req'[r])>> \in FlowEdges
    \/ \* the request arrives and its session is looked up
       /\ req[r].pc = "idle" /\ req'[r].pc = "session"
       /\ FlowState(req'[r]) = "Idle"

BodyFlowStepOf(r) ==
    \/ <<BodyFlowState(req[r]), BodyFlowState(req'[r])>> \in BodyFlowEdges
    \/ /\ req[r].pc = "idle" /\ req'[r].pc = "session"
       /\ BodyFlowState(req'[r]) = "Idle"

C8_OriginalInv == \A r \in Submits : req[r].session => FlowInvOf(req[r])

C8_OriginalStep == \A r \in Req : SubmitStep(r) => FlowStepOf(r)

\* C8, as claimed: every authenticated submission moves along Idle ->
\* Validating -> {Rejected | Inserting} -> {Conflict | StoreError | Success};
\* it ends in 400 without an insert, in 409 on store error 23505, in 500 on
\* any other store error, in the redirect to /products on none; it calls
\* insert at most once.
C8_Original == [](C8_OriginalInv) /\ [][C8_OriginalStep]_vars

C8_FlowInv ==
    \A r \in Submits :
        req[r].session =>
            IF req[r].body = BodyForm
            THEN FlowInvOf(req[r])
            ELSE BodyFlowState(req[r]) # "Other" /\ req[r].ops = <<>>

C8_FlowStep ==
    \A r \in Req :
        SubmitStep(r) =>
            IF SubmitOf(r).body = BodyForm THEN FlowStepOf(r) ELSE BodyFlowStepOf(r)

\* C8, amended: an authenticated submission whose body is a form that parses
\* moves
\* along Idle -> Validating -> {Rejected | Inserting} -> {Conflict |
\* StoreError | Success}; it ends in 400 without an insert, in 409 on store
\* error 23505, in 500 on any other store error, in the redirect to /products
\* on none; it calls insert at most once.  An authenticated submission whose
\* body request.formData() cannot read moves along Idle -> Validating -> Thrown: it ends in
\* the framework's 500 without a store error and without an insert.
C8_CreateFlow == [](C8_FlowInv) /\ [][C8_FlowStep]_vars

C8_Witness ==
    \E r \in Submits :
        /\ req[r].session /\ req[r].pc = "done" /\ req[r].body = BodyForm
        /\ req[r].resp.status = 500 /\ req[r].error = "23503"
        /\ Len(req[r].ops) = 1
        /\ Len(products) = 1

\* The step answers the list request of context r with a list.
ListAnswered(r) ==
    /\ req[r].kind = "list" /\ req[r].pc = "query"
    /\ req'[r].pc = "done" /\ req'[r].resp.status = 200

C9_ListInv ==
    \A r \in Req :
        (req[r].kind = "list" /\ req[r].session /\ req[r].pc = "done") =>
            LET data == req[r].resp.data
                page == req[r].resp.page
            IN  /\ req[r].resp.status \in {200, 500}
                /\ req[r].resp.status = 500 <=> req[r].error # ErrNull
                /\ req[r].resp.status = 500 => data = <<>> /\ page = <<>>
                /\ req[r].resp.status = 200 =>
                      /\ \A i \in 1..(Len(data) - 1) :
                            ~StrLess(data[i + 1].material_name_1,
                                     data[i].material_name_1)
                      /\ Len(data) = 0 => page = <<PlaceholderRow>>
                      /\ Len(data) > 0 =>
                            /\ Len(page) = Len(data)
                            /\ \A i \in 1..Len(page) :
                                  /\ ~page[i].placeholder
                                  /\ page[i].stock_code = data[i].stock_code
                                  /\ page[i].material_name_1 = data[i].material_name_1

C9_ListStep ==
    \A r \in Req :
        ListAnswered(r) =>
            LET data == req'[r].resp.data
            IN  /\ Len(data) = Len(products)
                /\ \A i \in 1..Len(products) :
                      \E j \in 1..Len(data) :
                          /\ data[j].id = products[i].id
                          /\ data[j].stock_code = products[i].stock_code
                          /\ data[j].material_name_1 = products[i].material_name_1

\* C9: a list request whose query succeeds returns every product of the
\* store, ascending by material_name_1; the page has one placeholder row
\* for the empty list and otherwise one row per product and no placeholder;
\* a store error gives 500 and no list.
C9_OrderedList == [](C9_ListInv) /\ [][C9_ListStep]_vars

C9_Witness ==
    \E r \in Req :
        /\ req[r].kind = "list" /\ req[r].pc = "done"
        /\ req[r].resp.status = 200
        /\ Len(req[r].resp.data) = 2
        /\ req[r].resp.data[1].id = 2
        /\ StrLess(req[r].resp.data[1].material_name_1,
                   req[r].resp.data[2].material_name_1)

C7_StepShowsCreated ==
    \A r \in Req :
        ListAnswered(r) =>
            \A i \in 1..Len(created) :
                \E j \in 1..Len(req'[r].resp.page) :
                    LET row == req'[r].resp.page[j]
                    IN  /\ ~row.placeholder
                        /\ row.stock_code = created[i].stock_code
                        /\ row.material_name_1 = created[i].material_name_1
                        /\ \E g \in product_groups :
                              /\ g.id = created[i].group_id
                              /\ row.group = g.name

\* C7: a list request whose query runs after a submission was answered
\* with the redirect to /products shows that product, under the name of the
\* group whose id is the group_id the action submitted to the store.
C7_CreatedIsListed == [][C7_StepShowsCreated]_vars

C7_Witness ==
    \E r \in Req :
        /\ req[r].kind = "list" /\ req[r].pc = "done"
        /\ req[r].resp.status = 200
        /\ Len(created) = 2
        /\ Len(req[r].resp.page) = 2
        /\ req[r].resp.page[1].group = S_kg
        /\ req[r].resp.page[2].group = S_m

\* The step answers the submission of context r.
SubmitAnswered(r) ==
    /\ req[r].kind = "submit" /\ req[r].pc # "done" /\ req'[r].pc = "done"

CodeStored(stock_code) ==
    \E i \in 1..Len(products) : products[i].stock_code = stock_code

C2_OriginalStep ==
    \A r \in Req :
        (/\ SubmitAnswered(r)
         /\ req[r].session
         /\ CodeStored(req[r].form.stock_code)) =>
            /\ req'[r].resp.status = 409
            /\ req'[r].resp.error[2] = req[r].form.stock_code

\* C2, as claimed: an authenticated submission whose stock_code is in the
\* store is answered with 409 and a message holding that code.
C2_Original == [][C2_OriginalStep]_vars

C2_UniqueInv ==
    /\ \A i, j \in 1..Len(products) :
          i # j => products[i].stock_code # products[j].stock_code
    /\ \A i, j \in 1..Len(created) :
          i # j => created[i].stock_code # created[j].stock_code
    /\ \A r \in Submits :
          (req[r].pc = "done" /\ req[r].resp.status = 409) =>
              /\ req[r].resp.error =
                    <<"Bu Stok Kodu (", req[r].form.stock_code, ") zaten mevcut.">>
              /\ CodeStored(req[r].form.stock_code)

C2_ConflictStep ==
    \A r \in Req :
        (/\ SubmitAnswered(r)
         /\ req[r].pc = "insert"
         /\ CodeStored(req[r].form.stock_code)) =>
            /\ products' = products
            /\ created' = created
            /\ \/ req'[r].resp.status = 409
               \/ req'[r].resp.status = 500 /\ req'[r].error = ErrOther

\* C2, amended: an authenticated submission that passes validation and
\* whose stock_code is in the store when the insert runs is answered with
\* 409 and a message holding exactly that code, or with 500 when the store
\* reports another error, and creates no row; in every interleaving the store
\* never holds two rows with one stock_code and at most one submission per
\* stock_code is answered with the redirect to /products.
C2_NoDuplicate == [](C2_UniqueInv) /\ [][C2_ConflictStep]_vars

C2_Witness ==
    \E r, s \in Submits :
        /\ r # s
        /\ req[r].form.stock_code = req[s].form.stock_code
        /\ req[r].form # req[s].form
        /\ req[r].pc = "done" /\ req[r].resp.status = 409
        /\ req[s].pc = "done" /\ ToProducts(req[s].resp)

C10_FrameStep ==
    /\ product_groups' = product_groups
    /\ Len(products') >= Len(products)
    /\ Len(products') <= Len(products) + 1
    /\ \A i \in 1..Len(products) : products'[i] = products[i]
    /\ Len(products') = Len(products) + 1 <=>
          \E r \in Req : SubmitAnswered(r) /\ ToProducts(req'[r].resp)
    /\ \A r \in Req :
          (SubmitAnswered(r) /\ ~ToProducts(req'[r].resp)) => products' = products

\* C10: a step adds one row to products exactly when it answers a
\* submission with the redirect to /products; every other step leaves
\* products as it is; no step changes product_groups or an existing row.
C10_Frame == [][C10_FrameStep]_vars

C10_Witness ==
    \E r, s \in Submits :
        /\ r # s
        /\ req[r].pc = "done" /\ req[r].resp.status = 500
        /\ req[s].pc = "done" /\ ToLogin(req[s].resp)
        /\ Len(products) = 1

=============================================================================
